---- MODULE Spec2Model ----
(***************************************************************************)
(* A model of ytui (src/src/main.rs): the entry point main, the run loop   *)
(* App::run, the event dispatch App::handle_events / handle_key_event and  *)
(* the part of App::render_frame that decides the horizontal scroll of the *)
(* search box and the terminal cursor.                                     *)
(*                                                                         *)
(* The single-line buffer is tui_input::Input (value, cursor) with the     *)
(* requests the modelled key events can produce.  Characters are opaque    *)
(* tokens with a display width; "WIDE" stands for a two-column character.  *)
(***************************************************************************)
EXTENDS Integers, Sequences, FiniteSets, TLC

\* ------------------------------------------------------------------ bounds

\* Events read by one run of the loop (Spec).
MaxReads == 4
\* Terminal widths (columns) the environment reports: MinWidth..MaxWidth.
MinWidth == 4
MaxWidth == 6
\* Events read by one run of the typing scenario (SpecTyping).
TypingReads == 30
\* Terminal width of the typing scenario: an inner width of 10 columns.
TypingWidth == 15

\* ------------------------------------------------------- program constants

\* Constraint::Length(1): height of the title region above the input box.
TitleHeight == 1
\* Constraint::Length(3): height of the input box.
InputBoxHeight == 3

\* ---------------------------------------------------------------- helpers

max(a, b) == IF a >= b THEN a ELSE b

min(a, b) == IF a <= b THEN a ELSE b

\* u16 arithmetic wraps modulo 2^16 when overflow checks are off.
U16 == 2 ^ 16

\* ----------------------------------------------------------------- events

\* q and s are bound in Normal mode; h, j, k, l are the keys the help line
\* names; WIDE is a two-column character.
Chars == {"q", "s", "h", "j", "k", "l", "WIDE"}

KeyCodes == Chars \cup {"Enter", "Esc", "Backspace", "Delete", "Left",
                        "Right", "Home", "End", "Tab"}

Widths == MinWidth .. MaxWidth

KeyEv(code, modifiers, kind) ==
    [type |-> "Key", code |-> code, modifiers |-> modifiers, kind |-> kind,
     width |-> 0]

ResizeEv(w) ==
    [type |-> "Resize", code |-> "", modifiers |-> "NONE", kind |-> "", width |-> w]

FocusEv ==
    [type |-> "FocusGained", code |-> "", modifiers |-> "NONE", kind |-> "",
     width |-> 0]

NoEvent ==
    [type |-> "None", code |-> "", modifiers |-> "NONE", kind |-> "", width |-> 0]

\* The events the environment of Spec can deliver.
Events ==
    {KeyEv(c, "NONE", "Press") : c \in KeyCodes}
    \cup {KeyEv(c, "CONTROL", "Press") : c \in {"q", "u", "k"}}
    \cup {KeyEv(c, "NONE", k) : c \in {"q", "s", "Esc", "Enter"},
                                 k \in {"Release", "Repeat"}}
    \cup {ResizeEv(w) : w \in Widths}
    \cup {FocusEv}

\* ------------------------------------------------- tui_input::Input buffer

\* Input::default(): empty value, cursor 0.
Input_default == [value |-> <<>>, cursor |-> 0]

\* unicode_width::UnicodeWidthChar::width(c)
char_width(c) == IF c = "WIDE" THEN 2 ELSE 1

RECURSIVE str_width(_)
str_width(s) == IF s = <<>> THEN 0 ELSE char_width(Head(s)) + str_width(Tail(s))

\* tui_input::backend::crossterm::to_input_request for the modelled events:
\* the request a key event maps to, or "None".
to_input_request(ev) ==
    IF ev.type = "Key" /\ ev.kind \in {"Press", "Repeat"}
    THEN CASE ev.code = "Backspace" /\ ev.modifiers = "NONE" -> [req |-> "DeletePrevChar", c |-> ""]
           [] ev.code = "Delete" /\ ev.modifiers = "NONE" -> [req |-> "DeleteNextChar", c |-> ""]
           [] ev.code = "Left" /\ ev.modifiers = "NONE" -> [req |-> "GoToPrevChar", c |-> ""]
           [] ev.code = "Right" /\ ev.modifiers = "NONE" -> [req |-> "GoToNextChar", c |-> ""]
           [] ev.code = "u" /\ ev.modifiers = "CONTROL" -> [req |-> "DeleteLine", c |-> ""]
           [] ev.code = "k" /\ ev.modifiers = "CONTROL" -> [req |-> "DeleteTillEnd", c |-> ""]
           [] ev.code = "Home" /\ ev.modifiers = "NONE" -> [req |-> "GoToStart", c |-> ""]
           [] ev.code = "End" /\ ev.modifiers = "NONE" -> [req |-> "GoToEnd", c |-> ""]
           [] ev.code \notin {"Enter", "Esc", "Backspace", "Delete", "Left", "Right",
                              "Home", "End", "Tab"}
              /\ ev.modifiers \in {"NONE", "SHIFT"} -> [req |-> "InsertChar", c |-> ev.code]
           [] OTHER -> [req |-> "None", c |-> ""]
    ELSE [req |-> "None", c |-> ""]

\* The sequence s without its element at 0-based index i.
remove_at(s, i) == SubSeq(s, 1, i) \o SubSeq(s, i + 2, Len(s))

\* Input::handle that appends an inserted character instead of placing it
\* at the cursor.
Input_handle_appends(input, r) ==
    LET n == Len(input.value)
        cur == input.cursor
    IN CASE r.req = "InsertChar" ->
              [value |-> Append(input.value, r.c), cursor |-> cur + 1]
         [] r.req = "DeletePrevChar" ->
              IF cur = 0 THEN input
              ELSE [value |-> remove_at(input.value, cur - 1), cursor |-> cur - 1]
         [] r.req = "DeleteNextChar" ->
              IF cur = n THEN input
              ELSE [value |-> remove_at(input.value, cur), cursor |-> cur]
         [] r.req = "GoToPrevChar" ->
              IF cur = 0 THEN input ELSE [input EXCEPT !.cursor = cur - 1]
         [] r.req = "GoToNextChar" ->
              IF cur = n THEN input ELSE [input EXCEPT !.cursor = cur + 1]
         [] r.req = "GoToStart" -> [input EXCEPT !.cursor = 0]
         [] r.req = "GoToEnd" -> [input EXCEPT !.cursor = n]
         [] r.req = "DeleteLine" -> [value |-> <<>>, cursor |-> 0]
         [] r.req = "DeleteTillEnd" -> [input EXCEPT !.value = SubSeq(input.value, 1, cur)]
         [] OTHER -> input

\* Input::handle that moves right without looking at the end of the text.
Input_handle_right_unchecked(input, r) ==
    LET n == Len(input.value)
        cur == input.cursor
    IN CASE r.req = "InsertChar" ->
              [value |-> SubSeq(input.value, 1, cur) \o <<r.c>>
                          \o SubSeq(input.value, cur + 1, n),
               cursor |-> cur + 1]
         [] r.req = "DeletePrevChar" ->
              IF cur = 0 THEN input
              ELSE [value |-> remove_at(input.value, cur - 1), cursor |-> cur - 1]
         [] r.req = "DeleteNextChar" ->
              IF cur = n THEN input
              ELSE [value |-> remove_at(input.value, cur), cursor |-> cur]
         [] r.req = "GoToPrevChar" ->
              IF cur = 0 THEN input ELSE [input EXCEPT !.cursor = cur - 1]
         [] r.req = "GoToNextChar" -> [input EXCEPT !.cursor = cur + 1]
         [] r.req = "GoToStart" -> [input EXCEPT !.cursor = 0]
         [] r.req = "GoToEnd" -> [input EXCEPT !.cursor = n]
         [] r.req = "DeleteLine" -> [value |-> <<>>, cursor |-> 0]
         [] r.req = "DeleteTillEnd" -> [input EXCEPT !.value = SubSeq(input.value, 1, cur)]
         [] OTHER -> input

\* tui_input::Input::handle(req)
Input_handle(input, r) ==
    LET n == Len(input.value)
        cur == input.cursor
    IN CASE r.req = "InsertChar" ->
              [value |-> SubSeq(input.value, 1, cur) \o <<r.c>>
                          \o SubSeq(input.value, cur + 1, n),
               cursor |-> cur + 1]
         [] r.req = "DeletePrevChar" ->
              IF cur = 0 THEN input
              ELSE [value |-> remove_at(input.value, cur - 1), cursor |-> cur - 1]
         [] r.req = "DeleteNextChar" ->
              IF cur = n THEN input
              ELSE [value |-> remove_at(input.value, cur), cursor |-> cur]
         [] r.req = "GoToPrevChar" ->
              IF cur = 0 THEN input ELSE [input EXCEPT !.cursor = cur - 1]
         [] r.req = "GoToNextChar" ->
              IF cur = n THEN input ELSE [input EXCEPT !.cursor = cur + 1]
         [] r.req = "GoToStart" -> [input EXCEPT !.cursor = 0]
         [] r.req = "GoToEnd" -> [input EXCEPT !.cursor = n]
         [] r.req = "DeleteLine" -> [value |-> <<>>, cursor |-> 0]
         [] r.req = "DeleteTillEnd" -> [input EXCEPT !.value = SubSeq(input.value, 1, cur)]
         [] OTHER -> input

\* EventHandler::handle_event: to_input_request(evt).and_then(|req| self.handle(req))
Input_handle_event(input, ev) == Input_handle(input, to_input_request(ev))

\* Input::visual_cursor: display width of the text before the cursor.
visual_cursor(input) ==
    IF input.cursor = 0 THEN 0
    ELSE str_width(SubSeq(input.value, 1, min(input.cursor, Len(input.value))))

\* visual_scroll that never scrolls.
visual_scroll_none(input, width) == 0

\* visual_scroll that keeps the cursor strictly left of the width-th column.
visual_scroll_plus_one(input, width) ==
    max(visual_cursor(input) + 1, width) - width

\* Input::visual_scroll(width): walk the characters until the accumulated
\* width reaches max(visual_cursor, width) - width.
visual_scroll(input, width) ==
    LET scroll == max(visual_cursor(input), width) - width
        RECURSIVE walk(_, _)
        walk(uscroll, i) ==
            IF uscroll < scroll /\ i <= Len(input.value)
            THEN walk(uscroll + char_width(input.value[i]), i + 1)
            ELSE uscroll
    IN walk(0, 1)

\* ------------------------------------------------------------------- App

\* The App value main constructs.
App_new ==
    [input_mode |-> "Normal", exit |-> FALSE, input |-> Input_default,
     search_items |-> <<>>, selected_item |-> ""]

\* A loop test that ignores the exit flag.
run_continues_always(self) == TRUE

\* App::run, the loop test: while !self.exit
run_continues(self) == ~self.exit

\* App::exit
App_exit(self) == [self EXCEPT !.exit = TRUE]

\* handle_key_event that tests the quit keys before the mode.
handle_key_event_quit_first(self, key_event) ==
    IF key_event.code \in {"q", "Esc"} THEN [self EXCEPT !.exit = TRUE]
    ELSE IF self.input_mode = "Editing"
    THEN CASE key_event.code = "Enter" -> [self EXCEPT !.input_mode = "Normal"]
           [] OTHER -> [self EXCEPT !.input = Input_handle_event(self.input, key_event)]
    ELSE CASE key_event.code = "s" -> [self EXCEPT !.input_mode = "Editing"]
           [] OTHER -> self

\* handle_key_event that empties the buffer when Enter commits it.
handle_key_event_clear_on_enter(self, key_event) ==
    IF self.input_mode = "Editing"
    THEN CASE key_event.code = "Enter" ->
                [self EXCEPT !.input_mode = "Normal", !.input = Input_default]
           [] key_event.code = "Esc" -> [self EXCEPT !.input_mode = "Normal"]
           [] OTHER -> [self EXCEPT !.input = Input_handle_event(self.input, key_event)]
    ELSE CASE key_event.code \in {"q", "Esc"} -> [self EXCEPT !.exit = TRUE]
           [] key_event.code = "s" -> [self EXCEPT !.input_mode = "Editing"]
           [] OTHER -> self

\* handle_key_event that hands the unbound keys of Normal mode to the buffer.
handle_key_event_nav_edits(self, key_event) ==
    IF self.input_mode = "Editing"
    THEN CASE key_event.code = "Enter" -> [self EXCEPT !.input_mode = "Normal"]
           [] key_event.code = "Esc" -> [self EXCEPT !.input_mode = "Normal"]
           [] OTHER -> [self EXCEPT !.input = Input_handle_event(self.input, key_event)]
    ELSE CASE key_event.code \in {"q", "Esc"} -> [self EXCEPT !.exit = TRUE]
           [] key_event.code = "s" -> [self EXCEPT !.input_mode = "Editing"]
           [] OTHER -> [self EXCEPT !.input = Input_handle_event(self.input, key_event)]

\* handle_key_event whose Enter puts the query into the result list.
handle_key_event_search_on_enter(self, key_event) ==
    IF self.input_mode = "Editing"
    THEN CASE key_event.code = "Enter" ->
                [self EXCEPT !.input_mode = "Normal",
                             !.search_items = Append(@, self.input.value)]
           [] key_event.code = "Esc" -> [self EXCEPT !.input_mode = "Normal"]
           [] OTHER -> [self EXCEPT !.input = Input_handle_event(self.input, key_event)]
    ELSE CASE key_event.code \in {"q", "Esc"} -> [self EXCEPT !.exit = TRUE]
           [] key_event.code = "s" -> [self EXCEPT !.input_mode = "Editing"]
           [] OTHER -> self

\* handle_key_event that hands Esc to the buffer in Editing mode.
handle_key_event_esc_ignored(self, key_event) ==
    IF self.input_mode = "Editing"
    THEN CASE key_event.code = "Enter" -> [self EXCEPT !.input_mode = "Normal"]
           [] OTHER -> [self EXCEPT !.input = Input_handle_event(self.input, key_event)]
    ELSE CASE key_event.code \in {"q", "Esc"} -> [self EXCEPT !.exit = TRUE]
           [] key_event.code = "s" -> [self EXCEPT !.input_mode = "Editing"]
           [] OTHER -> self

\* handle_key_event whose Esc quits in Editing mode too.
handle_key_event_esc_quits(self, key_event) ==
    IF self.input_mode = "Editing"
    THEN CASE key_event.code = "Enter" -> [self EXCEPT !.input_mode = "Normal"]
           [] key_event.code = "Esc" -> [self EXCEPT !.exit = TRUE]
           [] OTHER -> [self EXCEPT !.input = Input_handle_event(self.input, key_event)]
    ELSE CASE key_event.code \in {"q", "Esc"} -> [self EXCEPT !.exit = TRUE]
           [] key_event.code = "s" -> [self EXCEPT !.input_mode = "Editing"]
           [] OTHER -> self

\* App::handle_key_event
handle_key_event(self, key_event) ==
    IF self.input_mode = "Editing"
    THEN CASE key_event.code = "Enter" -> [self EXCEPT !.input_mode = "Normal"]
           [] key_event.code = "Esc" -> [self EXCEPT !.input_mode = "Normal"]
           [] OTHER -> [self EXCEPT !.input = Input_handle_event(self.input, key_event)]
    ELSE CASE key_event.code \in {"q", "Esc"} -> App_exit(self)
           [] key_event.code = "s" -> [self EXCEPT !.input_mode = "Editing"]
           [] OTHER -> self

\* handle_events without the test of the key event's kind.
handle_event_any_kind(self, ev) ==
    IF ev.type = "Key" THEN handle_key_event(self, ev) ELSE self

\* App::handle_events, the match on the event that event::read() returned.
handle_event(self, ev) ==
    IF ev.type = "Key" /\ ev.kind = "Press"
    THEN handle_key_event(self, ev)
    ELSE self

\* -------------------------------------------------------------- rendering

\* Layout::vertical([Length(1), Length(3), Fill(1), Length(1)]).areas(frame.size()):
\* the input box is the full-width second region.
input_box(size) ==
    [x |-> 0, y |-> TitleHeight, width |-> size, height |-> InputBoxHeight]

\* input_box.width.max(3) - 3 - 2 on u16: below width 5 the subtraction
\* underflows, which panics with overflow checks and wraps without them.
inner_width(box_width) ==
    LET w == max(box_width, 3) - 3 - 2
    IN IF w < 0
       THEN {[panic |-> TRUE, width |-> 0], [panic |-> FALSE, width |-> w + U16]}
       ELSE {[panic |-> FALSE, width |-> w]}

NoCursor == <<>>

\* frame_cursor that forgets the column of padding.
frame_cursor_no_padding(self, box, scroll) ==
    IF self.input_mode = "Normal"
    THEN {[panic |-> FALSE, cursor |-> NoCursor]}
    ELSE LET col == (max(visual_cursor(self.input), scroll) - scroll) % U16
             x == box.x + col + 1
             y == box.y + 1
         IN IF x >= U16 \/ y >= U16
            THEN {[panic |-> TRUE, cursor |-> NoCursor],
                  [panic |-> FALSE, cursor |-> <<x % U16, y % U16>>]}
            ELSE {[panic |-> FALSE, cursor |-> <<x, y>>]}

\* The match on input_mode at the end of render_frame: none in Normal mode;
\* in Editing mode the position handed to frame.set_cursor,
\* (input_box.x + (visual_cursor.max(scroll) - scroll) as u16 + 1 + 1,
\* input_box.y + 1), computed in u16. The cast truncates; a sum past 65535
\* panics with overflow checks and wraps without them.
frame_cursor(self, box, scroll) ==
    IF self.input_mode = "Normal"
    THEN {[panic |-> FALSE, cursor |-> NoCursor]}
    ELSE LET col == (max(visual_cursor(self.input), scroll) - scroll) % U16
             x == box.x + col + 1 + 1
             y == box.y + 1
         IN IF x >= U16 \/ y >= U16
            THEN {[panic |-> TRUE, cursor |-> NoCursor],
                  [panic |-> FALSE, cursor |-> <<x % U16, y % U16>>]}
            ELSE {[panic |-> FALSE, cursor |-> <<x, y>>]}

\* App::render_frame for an inner width that was computed without a panic:
\* the frames it can produce, a panic of the cursor arithmetic among them.
\* An inner width above the box width is a wrapped one, which only the
\* build without overflow checks produces, and that build does not panic.
render_frame(self, size, width) ==
    LET box == input_box(size)
        scroll == visual_scroll(self.input, width)
    IN {[panic |-> c.panic, box |-> box, width |-> width, scroll |-> scroll,
         cursor |-> c.cursor] :
            c \in {o \in frame_cursor(self, box, scroll) :
                      ~(o.panic /\ width > box.width)}}

\* render_frame that leaves the editing mode when it draws.
render_self_leaves_editing(self) == [self EXCEPT !.input_mode = "Normal"]

\* App::render_frame takes &self: the App value after the call.
render_self(self) == self

\* A loop that polls with a timeout and draws again when no event came.
pc_after_draw_or_timeout == {"read", "loop"}

\* App::run: after terminal.draw comes self.handle_events(), a blocking read.
pc_after_draw == {"read"}

NoFrame ==
    [panic |-> FALSE, box |-> input_box(0), width |-> 0, scroll |-> 0,
     cursor |-> NoCursor]

\* ------------------------------------------------------------- terminal

\* The terminal as the shell left it.
PreRun == [raw_mode |-> FALSE, alt_screen |-> FALSE, cursor_visible |-> TRUE,
           cursor_pos |-> <<0, 0>>]

\* tui::init on success: alternate screen, raw mode, cursor hidden.
tui_init(t) ==
    [t EXCEPT !.alt_screen = TRUE, !.raw_mode = TRUE, !.cursor_visible = FALSE]

\* tui::restore: leave the alternate screen, disable raw mode, show the
\* cursor; `done` is the number of these steps completed (3 = success).
tui_restore(t, done) ==
    [t EXCEPT !.alt_screen = IF done >= 1 THEN FALSE ELSE @,
              !.raw_mode = IF done >= 2 THEN FALSE ELSE @,
              !.cursor_visible = IF done >= 3 THEN TRUE ELSE @]

\* Terminal::show_cursor
show_cursor(t) == [t EXCEPT !.cursor_visible = TRUE]

\* Terminal::draw after the render callback: hide the cursor when the frame
\* set none, otherwise show it and move it there.
apply_cursor(t, fr) ==
    IF fr.cursor = NoCursor
    THEN [t EXCEPT !.cursor_visible = FALSE]
    ELSE [t EXCEPT !.cursor_visible = TRUE, !.cursor_pos = fr.cursor]

\* Drop of the ratatui Terminal when main is left: shows the cursor if the
\* Terminal had hidden it; a failure is printed and ignored.
Terminal_drop(t, ok) == IF ok THEN show_cursor(t) ELSE t

\* ------------------------------------------------------------------ state

VARIABLES
    pc,           \* position in main: "init", "loop", "read", "restore",
                  \* "show_cursor", "returned", "panicked"
    app,          \* the App value
    term,         \* the terminal's mode and cursor
    size,         \* the terminal's width in columns
    frame,        \* what the last completed render computed
    event,        \* the event read in the current iteration
    renders,      \* completed terminal.draw calls
    reads,        \* completed event::read calls
    restores,     \* calls of tui::restore
    app_result,   \* the value of App::run
    main_result   \* the value main returned

vars == <<pc, app, term, size, frame, event, renders, reads, restores, app_result,
          main_result>>

Init ==
    /\ pc = "init"
    /\ app = App_new
    /\ term = PreRun
    /\ size \in Widths
    /\ frame = NoFrame
    /\ event = NoEvent
    /\ renders = 0
    /\ reads = 0
    /\ restores = 0
    /\ app_result = "none"
    /\ main_result = "none"

\* ---------------------------------------------------------------- actions

\* main that goes on into the loop when tui::init failed.
TuiInit_ignores_error ==
    /\ pc = "init"
    /\ \/ /\ term' = tui_init(term)
          /\ UNCHANGED main_result
       \/ /\ main_result' = "Err_init"
          /\ UNCHANGED term
    /\ pc' = "loop"
    /\ UNCHANGED <<app, size, frame, event, renders, reads, restores, app_result>>

\* main: let mut terminal = tui::init()?;
TuiInit ==
    /\ pc = "init"
    /\ \/ /\ term' = tui_init(term)
          /\ pc' = "loop"
          /\ UNCHANGED main_result
       \/ /\ main_result' = "Err_init"
          /\ pc' = "returned"
          /\ UNCHANGED term
    /\ UNCHANGED <<app, size, frame, event, renders, reads, restores, app_result>>

\* App::run: the loop test fails, run returns Ok(()).
LoopExit ==
    /\ pc = "loop"
    /\ ~run_continues(app)
    /\ app_result' = "Ok"
    /\ pc' = "restore"
    /\ UNCHANGED <<app, term, size, frame, event, renders, reads, restores, main_result>>

\* App::run: terminal.draw(|frame| self.render_frame(frame))?
Draw ==
    /\ pc = "loop"
    /\ run_continues(app)
    /\ \E r \in inner_width(input_box(size).width) :
         \/ /\ ~r.panic
            /\ frame' \in {f \in render_frame(app, size, r.width) : ~f.panic}
            /\ term' = apply_cursor(term, frame')
            /\ renders' = renders + 1
            /\ app' = render_self(app)
            /\ event' = NoEvent
            /\ pc' \in pc_after_draw
            /\ UNCHANGED <<app_result, main_result>>
         \/ /\ ~r.panic
            /\ app_result' = "Err_render"
            /\ pc' = "restore"
            /\ UNCHANGED <<app, term, frame, event, renders, main_result>>
         \/ /\ r.panic \/ \E f \in render_frame(app, size, r.width) : f.panic
            /\ \E ok \in BOOLEAN : term' = Terminal_drop(term, ok)
            /\ main_result' = "panic"
            /\ pc' = "panicked"
            /\ UNCHANGED <<app, frame, event, renders, app_result>>
    /\ UNCHANGED <<size, reads, restores>>

\* App::run: self.handle_events()? with the events the environment offers.
HandleEvents(offered) ==
    /\ pc = "read"
    /\ \/ \E ev \in offered :
            /\ event' = ev
            /\ app' = handle_event(app, ev)
            /\ size' = IF ev.type = "Resize" THEN ev.width ELSE size
            /\ reads' = reads + 1
            /\ pc' = "loop"
            /\ UNCHANGED app_result
       \/ /\ app_result' = "Err_read"
          /\ pc' = "restore"
          /\ UNCHANGED <<app, size, event, reads>>
    /\ UNCHANGED <<term, frame, renders, restores, main_result>>

\* main: tui::restore()?;
TuiRestore ==
    /\ pc = "restore"
    /\ \/ /\ term' = tui_restore(term, 3)
          /\ pc' = "show_cursor"
          /\ UNCHANGED main_result
       \/ \E done \in 0 .. 2, ok \in BOOLEAN :
            /\ term' = Terminal_drop(tui_restore(term, done), ok)
            /\ main_result' = "Err_restore"
            /\ pc' = "returned"
    /\ restores' = restores + 1
    /\ UNCHANGED <<app, size, frame, event, renders, reads, app_result>>

\* main: terminal.show_cursor()?; app_result
ShowCursor ==
    /\ pc = "show_cursor"
    /\ \/ /\ term' = show_cursor(term)
          /\ main_result' = app_result
       \/ /\ \E ok \in BOOLEAN : term' = Terminal_drop(term, ok)
          /\ main_result' = "Err_show_cursor"
    /\ pc' = "returned"
    /\ UNCHANGED <<app, size, frame, event, renders, reads, restores, app_result>>

\* The events of Spec: any event, up to MaxReads of them.
Offered == IF reads < MaxReads THEN Events ELSE {}

Next ==
    \/ TuiInit
    \/ LoopExit
    \/ Draw
    \/ HandleEvents(Offered)
    \/ TuiRestore
    \/ ShowCursor

Spec == Init /\ [][Next]_vars

\* ------------------------------------------------------ typing scenario

\* The twenty characters of the typing scenario.
Typed == <<"a", "b", "c", "d", "e", "f", "g", "h", "i", "j",
           "k", "l", "m", "n", "o", "p", "q", "r", "s", "t">>

\* The five characters of the second typing scenario.
Hello == <<"h", "e", "l", "l", "o">>

Scripts == {Typed, Hello}

IsPrefix(v, sc) == Len(v) <= Len(sc) /\ SubSeq(sc, 1, Len(v)) = v

\* The next character of every script that the text v begins.
Continuations(v) ==
    {sc[Len(v) + 1] : sc \in {x \in Scripts : IsPrefix(v, x) /\ Len(v) < Len(x)}}

\* The user of a typing scenario presses s, types a script at the end of
\* the line, then moves the cursor or leaves; the terminal may be resized
\* between the scenario's width and the narrowest one.
TypingKeys ==
    IF app.input_mode = "Normal" THEN {"s", "q"}
    ELSE IF Continuations(app.input.value) # {} THEN Continuations(app.input.value)
    ELSE {"Esc", "Left", "Right", "Home", "End"}

OfferedTyping ==
    IF reads < TypingReads /\ \E sc \in Scripts : IsPrefix(app.input.value, sc)
    THEN {KeyEv(c, "NONE", "Press") : c \in TypingKeys}
         \cup {ResizeEv(w) : w \in {MinWidth, TypingWidth}}
    ELSE {}

InitTyping ==
    /\ pc = "init"
    /\ app = App_new
    /\ term = PreRun
    /\ size = TypingWidth
    /\ frame = NoFrame
    /\ event = NoEvent
    /\ renders = 0
    /\ reads = 0
    /\ restores = 0
    /\ app_result = "none"
    /\ main_result = "none"

NextTyping ==
    \/ TuiInit
    \/ LoopExit
    \/ Draw
    \/ HandleEvents(OfferedTyping)
    \/ TuiRestore
    \/ ShowCursor

SpecTyping == InitTyping /\ [][NextTyping]_vars

\* ----------------------------------------------------- editing scenario

\* Any event while fewer than MaxReads were read, and the typing scenarios.
OfferedEditing == Offered \cup OfferedTyping

NextEditing ==
    \/ TuiInit
    \/ LoopExit
    \/ Draw
    \/ HandleEvents(OfferedEditing)
    \/ TuiRestore
    \/ ShowCursor

SpecEditing == Init /\ [][NextEditing]_vars

TypeOK ==
    /\ pc \in {"init", "loop", "read", "restore", "show_cursor", "returned", "panicked"}
    /\ app.input_mode \in {"Normal", "Editing"}
    /\ app.exit \in BOOLEAN
    /\ app.input.cursor \in 0 .. Len(app.input.value)
    /\ size \in Widths \cup {TypingWidth}
    /\ renders \in reads .. reads + 1
    /\ restores \in 0 .. 1

\* ----------------------------------------------------------------- claims

IoErrors == {"Err_render", "Err_read"}

Restored(t) == ~t.raw_mode /\ ~t.alt_screen /\ t.cursor_visible

KeyPress(ev) == ev.type = "Key" /\ ev.kind = "Press"

\* A step of HandleEvents that read an event.
ReadStep == reads' = reads + 1

\* C1: whenever main has given control back to the shell after a successful
\* init (normal exit, an I/O error of the loop, or a panic in the loop), the
\* terminal is in its pre-run state: raw mode off, main screen, cursor shown.
C1_TerminalRestoredOnEveryPath ==
    (pc \in {"returned", "panicked"} /\ main_result # "Err_init") => Restored(term)

\* C2: a key press of q or Esc in Normal mode sets exit while that event is
\* handled, and the next loop test ends the loop; every other key press in
\* Normal mode and every key press in Editing mode leaves exit false.
C2_OnlyNormalQuitKeysSetExit ==
    [][ /\ (ReadStep /\ KeyPress(event')) =>
             (app'.exit <=> (app.input_mode = "Normal" /\ event'.code \in {"q", "Esc"}))
        /\ (pc = "loop" /\ app.exit) => (pc' = "restore" /\ app_result' = "Ok")
      ]_vars

C2_Witness ==
    /\ pc = "restore"
    /\ app_result = "Ok"
    /\ app.exit
    /\ event = KeyEv("Esc", "NONE", "Press")
    /\ reads > 1

\* C3: once exit is true no render and no event read happens any more, and
\* when the loop has returned after the single event "press q", exactly one
\* render has happened.
C3_NoRenderAfterExit ==
    [][ /\ app.exit => (renders' = renders /\ reads' = reads)
        /\ (app_result' = "Ok" /\ reads' = 1 /\ event' = KeyEv("q", "NONE", "Press"))
              => renders' = 1
      ]_vars

C3_Witness ==
    /\ pc = "returned"
    /\ main_result = "Ok"
    /\ event = KeyEv("q", "NONE", "Press")
    /\ reads = 1
    /\ renders = 1

\* C4: a mode transition leaves the input buffer as it was: Enter and Esc
\* in Editing mode lead to Normal, s in Normal mode leads to Editing, and in
\* each case value and cursor are those before the key.
C4_ModeTransitionKeepsBuffer ==
    [][ (ReadStep /\ KeyPress(event')) =>
          /\ (app.input_mode = "Editing" /\ event'.code \in {"Enter", "Esc"})
                => (app'.input_mode = "Normal" /\ app'.input = app.input)
          /\ (app.input_mode = "Normal" /\ event'.code = "s")
                => (app'.input_mode = "Editing" /\ app'.input = app.input)
          /\ (app'.input_mode # app.input_mode) => app'.input = app.input
      ]_vars

C4_Witness ==
    /\ pc = "loop"
    /\ event = KeyEv("Enter", "NONE", "Press")
    /\ app.input_mode = "Normal"
    /\ app.input = [value |-> <<"s", "q">>, cursor |-> 2]

\* C5: reading an event that is not a key press (a key release, a key
\* repeat, a resize) leaves every field of the application state unchanged.
C5_OnlyKeyPressChangesState ==
    [][ (ReadStep /\ ~KeyPress(event')) => app' = app ]_vars

C5_Witness ==
    /\ pc = "loop"
    /\ event = KeyEv("Esc", "NONE", "Repeat")
    /\ app.input_mode = "Editing"
    /\ app.input.value # <<>>
    /\ ~app.exit

\* The scroll sc keeps a cursor at display column vc within inner width w,
\* the cursor being allowed on the column that follows the w-th.
ScrollInWindow(vc, sc, w) == 0 <= sc /\ sc <= vc /\ vc - sc <= w

\* The same with the cursor strictly inside the first w columns.
ScrollStrictlyInWindow(vc, sc, w) == 0 <= sc /\ sc <= vc /\ vc - sc < w

\* C6 (as amended): for every buffer state and every inner width w >= 1 the
\* visual scroll satisfies 0 <= scroll <= cursor and cursor - scroll <= w,
\* cursor being the display column of the cursor; so does the scroll of
\* every completed render.
C6_ScrollKeepsCursorInWindow ==
    /\ \A w \in 1 .. MaxWidth :
          ScrollInWindow(visual_cursor(app.input), visual_scroll(app.input, w), w)
    /\ (pc = "read" /\ frame.width >= 1) =>
          ScrollInWindow(visual_cursor(app.input), frame.scroll, frame.width)

\* C6 as stated: for every buffer state and every inner width w >= 1,
\* 0 <= scroll <= cursor and cursor - scroll < w.
C6_Original ==
    /\ \A w \in 1 .. MaxWidth :
          ScrollStrictlyInWindow(visual_cursor(app.input), visual_scroll(app.input, w), w)
    /\ (pc = "read" /\ frame.width >= 1) =>
          ScrollStrictlyInWindow(visual_cursor(app.input), frame.scroll, frame.width)

C6_Witness ==
    /\ pc = "read"
    /\ frame.width >= 1
    /\ frame.scroll > 0
    /\ visual_cursor(app.input) - frame.scroll = frame.width

\* The buffer holds the first n characters of the scenario, cursor at the end.
TypedUpTo(n) ==
    /\ app.input.value = SubSeq(Typed, 1, n)
    /\ app.input.cursor = n

\* C7 (as amended): with one-column characters the scroll of a render is
\* max(0, cursor - w), the smallest scroll >= 0 with cursor - scroll <= w;
\* after typing 20 characters at inner width 10 it is 10 and the cursor is
\* drawn at column box.x + 2 + 10; after 5 characters it is 0.
C7_ScrollIsCursorMinusWidth ==
    pc = "read" =>
      /\ frame.scroll = max(0, app.input.cursor - frame.width)
      /\ \A sc \in 0 .. frame.scroll - 1 : app.input.cursor - sc > frame.width
      /\ (TypedUpTo(20) /\ app.input_mode = "Editing" /\ frame.width = 10) =>
            /\ frame.scroll = 10
            /\ term.cursor_pos[1] = frame.box.x + 2 + 10
      /\ (TypedUpTo(5) /\ frame.width = 10) => frame.scroll = 0

\* C7 as stated: the scroll of a render is max(0, cursor - w + 1); after
\* typing 20 characters at inner width 10 it is 11 and the cursor is drawn
\* at column box.x + 2 + 9; after 5 characters it is 0.
C7_Original ==
    pc = "read" =>
      /\ frame.scroll = max(0, app.input.cursor - frame.width + 1)
      /\ (TypedUpTo(20) /\ app.input_mode = "Editing" /\ frame.width = 10) =>
            /\ frame.scroll = 11
            /\ term.cursor_pos[1] = frame.box.x + 2 + 9
      /\ (TypedUpTo(5) /\ frame.width = 10) => frame.scroll = 0

C7_Witness ==
    /\ pc = "read"
    /\ TypedUpTo(20)
    /\ app.input_mode = "Editing"
    /\ frame.width = 10
    /\ frame.scroll = 10
    /\ term.cursor_pos = <<frame.box.x + 12, frame.box.y + 1>>

\* C8: after every render the terminal cursor is hidden in Normal mode and,
\* in Editing mode, visible at column input_box.x + (cursor - scroll) + 2 of
\* row input_box.y + 1, cursor being the display column of the cursor; right
\* after Start, press s it is at (input_box.x + 2, input_box.y + 1).
C8_CursorAfterRender ==
    pc = "read" =>
      /\ app.input_mode = "Normal" => ~term.cursor_visible
      /\ app.input_mode = "Editing" =>
            /\ term.cursor_visible
            /\ term.cursor_pos =
                 <<input_box(size).x + (visual_cursor(app.input) - frame.scroll) + 2,
                   input_box(size).y + 1>>
      /\ (reads = 1 /\ app.input_mode = "Editing") =>
            /\ term.cursor_visible
            /\ term.cursor_pos = <<input_box(size).x + 2, input_box(size).y + 1>>

C8_Witness ==
    /\ pc = "read"
    /\ app.input_mode = "Editing"
    /\ frame.scroll > 0
    /\ visual_cursor(app.input) > frame.scroll
    /\ term.cursor_visible
    /\ term.cursor_pos[1] > input_box(size).x + 2

\* C9: a failure of restore() is never what main returns, and when the run
\* loop ended with an I/O error main returns that error.
C9_RestoreFailureNeverRaised ==
    pc = "returned" =>
      /\ main_result # "Err_restore"
      /\ app_result \in IoErrors => main_result = app_result

\* C10: when a render or an event read fails with an I/O error the loop ends
\* at once (no later render or event read, no change of the application
\* state in that iteration or after), restore() is run, and main returns
\* that error.
C10_IoErrorEndsRunAndIsReturned ==
    [][ app_result' \in IoErrors =>
          /\ renders' = renders /\ reads' = reads /\ app' = app
          /\ pc' \in {"restore", "show_cursor", "returned"}
          /\ pc' = "returned" => (restores' = 1 /\ main_result' = app_result')
      ]_vars

\* C11: in Normal mode a key press whose code is not q, Esc or s (h, j, k
\* and l included) changes nothing of the application state and produces no
\* error.
C11_NormalOtherKeysAreNoOps ==
    [][ (ReadStep /\ KeyPress(event') /\ app.input_mode = "Normal"
            /\ event'.code \notin {"q", "Esc", "s"}) =>
          (app' = app /\ app_result' = app_result /\ main_result' = main_result
             /\ pc' = "loop")
      ]_vars

C11_Witness ==
    /\ pc = "loop"
    /\ event = KeyEv("j", "NONE", "Press")
    /\ app.input_mode = "Normal"
    /\ app.input.value # <<>>
    /\ ~app.exit

\* The key codes that are not characters.
NamedKeys == {"Enter", "Esc", "Backspace", "Delete", "Left", "Right", "Home",
              "End", "Tab"}

\* A character typed with no modifier or with Shift.
PrintablePress(ev) ==
    KeyPress(ev) /\ ev.code \notin NamedKeys /\ ev.modifiers \in {"NONE", "SHIFT"}

\* The buffer holds the first n characters of hello, cursor at the end.
HelloUpTo(a, n) ==
    /\ a.input.value = SubSeq(Hello, 1, n)
    /\ a.input.cursor = n

\* C12: in Editing mode a key press other than Enter and Esc keeps the mode
\* Editing and exit false and changes the input buffer only; a printable
\* character (q and s included) is inserted at the cursor, which advances by
\* one, so that Start, s, h, e, l, l, o gives the value hello with cursor 5.
C12_EditingKeysGoToBuffer ==
    [][ (ReadStep /\ KeyPress(event') /\ app.input_mode = "Editing"
            /\ event'.code \notin {"Enter", "Esc"}) =>
          /\ app'.input_mode = "Editing"
          /\ ~app'.exit
          /\ app' = [app EXCEPT !.input = app'.input]
          /\ PrintablePress(event') =>
               /\ app'.input.value =
                    SubSeq(app.input.value, 1, app.input.cursor) \o <<event'.code>>
                      \o SubSeq(app.input.value, app.input.cursor + 1,
                                Len(app.input.value))
               /\ app'.input.cursor = app.input.cursor + 1
          /\ \A n \in 0 .. 4 :
               (HelloUpTo(app, n) /\ event' = KeyEv(Hello[n + 1], "NONE", "Press"))
                  => HelloUpTo(app', n + 1)
      ]_vars

C12_Witness ==
    /\ pc = "loop"
    /\ reads = 6
    /\ app.input_mode = "Editing"
    /\ app.input.value = Hello
    /\ app.input.cursor = 5
    /\ event = KeyEv("o", "NONE", "Press")

\* The text v without the character before position cur (cur > 0).
WithoutCharBefore(v, cur) ==
    [i \in 1 .. Len(v) - 1 |-> IF i < cur THEN v[i] ELSE v[i + 1]]

\* C13: the cursor index always lies in 0 .. len(value); in Editing mode
\* Backspace at 0 and Delete at len change nothing, Left at 0 and Right at
\* len keep the cursor, Home puts it at 0 and End at len, and Backspace with
\* cursor > 0 removes exactly the character before the cursor and moves the
\* cursor one to the left.
C13_CursorStaysInText ==
    [][ /\ app.input.cursor \in 0 .. Len(app.input.value)
        /\ app'.input.cursor \in 0 .. Len(app'.input.value)
        /\ (ReadStep /\ KeyPress(event') /\ app.input_mode = "Editing"
               /\ event'.modifiers = "NONE") =>
             LET v == app.input.value
                 cur == app.input.cursor
                 code == event'.code
             IN /\ (code = "Backspace" /\ cur = 0) => app'.input = app.input
                /\ (code = "Delete" /\ cur = Len(v)) => app'.input = app.input
                /\ (code = "Left" /\ cur = 0) => app'.input = app.input
                /\ (code = "Right" /\ cur = Len(v)) => app'.input = app.input
                /\ (code = "Left" /\ cur > 0) =>
                      app'.input = [value |-> v, cursor |-> cur - 1]
                /\ (code = "Right" /\ cur < Len(v)) =>
                      app'.input = [value |-> v, cursor |-> cur + 1]
                /\ code = "Home" => app'.input = [value |-> v, cursor |-> 0]
                /\ code = "End" => app'.input = [value |-> v, cursor |-> Len(v)]
                /\ (code = "Backspace" /\ cur > 0) =>
                      app'.input = [value |-> WithoutCharBefore(v, cur),
                                    cursor |-> cur - 1]
      ]_vars

C13_Witness ==
    /\ pc = "loop"
    /\ reads = 4
    /\ event = KeyEv("Backspace", "NONE", "Press")
    /\ app.input_mode = "Editing"
    /\ app.input = [value |-> <<"q">>, cursor |-> 1]

\* C14: the result list is always empty and the selected item is always the
\* empty string, whatever events were read.
C14_ResultsNeverAssigned ==
    app.search_items = <<>> /\ app.selected_item = ""

C14_Witness ==
    /\ pc = "loop"
    /\ event = KeyEv("Enter", "NONE", "Press")
    /\ app.input_mode = "Normal"
    /\ Len(app.input.value) = 2
    /\ app.search_items = <<>>
    /\ app.selected_item = ""

\* C15: a render, completed or not and at any frame size, leaves the
\* application state (mode, exit, value, cursor, results, selection) as it
\* was.
C15_RenderKeepsState ==
    [][ /\ renders' = renders + 1 => app' = app
        /\ (pc = "loop" /\ ~app.exit) => app' = app
      ]_vars

C15_Witness ==
    /\ pc = "read"
    /\ renders = 4
    /\ app.input_mode = "Editing"
    /\ app.input.value # <<>>
    /\ frame.scroll > 0

\* C16: when terminal initialization fails main returns that error at once:
\* nothing was rendered, read or restored and the application state is the
\* initial one.
C16_InitFailureReturnsBeforeLoop ==
    main_result = "Err_init" =>
      /\ pc = "returned"
      /\ renders = 0 /\ reads = 0 /\ restores = 0
      /\ app = App_new
      /\ app_result = "none"
      /\ frame = NoFrame

C16_Witness ==
    /\ pc = "returned"
    /\ main_result = "Err_init"
    /\ renders = 0
    /\ reads = 0

\* C17: renders and event reads alternate strictly, a render first: a render
\* happens only when as many events were read as frames drawn, an event read
\* only when exactly one frame more was drawn, and an event read that leaves
\* exit false hands over to the next render.
C17_RenderAndReadAlternate ==
    [][ /\ renders' \in {renders, renders + 1}
        /\ reads' \in {reads, reads + 1}
        /\ renders' = renders + 1 => (renders = reads /\ reads' = reads)
        /\ reads' = reads + 1 => (renders = reads + 1 /\ renders' = renders)
        /\ (reads' = reads + 1 /\ ~app'.exit) => pc' = "loop"
        /\ (pc = "loop" /\ ~app.exit) => reads' = reads
      ]_vars

C17_Witness ==
    /\ pc = "read"
    /\ reads = 3
    /\ renders = 4
    /\ event = NoEvent
    /\ ~app.exit

\* C18: for every width of the input box the inner width max(3, width) - 3
\* - 2 is computed without underflow: no panic and no wrap-around, the
\* result lies in 0 .. width.
C18_InnerWidthNeverUnderflows ==
    /\ pc # "panicked"
    /\ (pc = "loop" /\ ~app.exit) =>
          \A r \in inner_width(input_box(size).width) :
              ~r.panic /\ r.width \in 0 .. input_box(size).width
    /\ pc = "read" => frame.width \in 0 .. frame.box.width

EscPress == KeyEv("Esc", "NONE", "Press")

\* Two presses of Esc handled from the application state a set exit: the
\* first leaves Editing mode, the one handled in Normal mode sets exit.
TwoEscQuit(a) ==
    LET a1 == handle_event(a, EscPress)
    IN /\ a.input_mode = "Editing" =>
            /\ a1.input_mode = "Normal"
            /\ ~a1.exit
            /\ handle_event(a1, EscPress).exit
       /\ a.input_mode = "Normal" => a1.exit

\* C19: from every reachable state with exit false two consecutive presses
\* of Esc end the loop: Esc in Editing mode leads to Normal mode, Esc in
\* Normal mode sets exit, and the loop test that follows leaves the loop.
C19_TwoEscapesQuit ==
    [][ /\ ~app.exit => TwoEscQuit(app)
        /\ ~app'.exit => TwoEscQuit(app')
        /\ (ReadStep /\ event' = EscPress) =>
             /\ app.input_mode = "Editing" => (app'.input_mode = "Normal" /\ ~app'.exit)
             /\ app.input_mode = "Normal" => app'.exit
        /\ (pc = "loop" /\ app.exit) => pc' = "restore"
      ]_vars

C19_Witness ==
    /\ pc = "restore"
    /\ app_result = "Ok"
    /\ app.exit
    /\ event = EscPress
    /\ reads = 4
    /\ app.input.value # <<>>

\* What C20 says of the exit flag: it implies Normal mode, it is set only in
\* Normal mode, it is never reset, and no event is handled once it is set.
ExitOnlyInNormal ==
    /\ app.exit => app.input_mode = "Normal"
    /\ app'.exit => app'.input_mode = "Normal"
    /\ (~app.exit /\ app'.exit) => app.input_mode = "Normal"
    /\ app.exit => app' = app

\* C20 (as amended): exit = true implies mode = Normal in every reachable
\* state (the flag starts false, is set only in Normal mode, is never reset
\* and no event is handled after it), so a loop that ends through the exit
\* flag ends in Normal mode.
C20_ExitImpliesNormal ==
    [][ /\ ExitOnlyInNormal
        /\ app_result' = "Ok" => (app'.exit /\ app'.input_mode = "Normal")
      ]_vars

\* C20 as stated: exit = true implies mode = Normal, and the loop always
\* ends in Normal mode.
C20_Original ==
    [][ /\ ExitOnlyInNormal
        /\ app_result' # "none" => app'.input_mode = "Normal"
      ]_vars

C20_Witness ==
    /\ pc = "restore"
    /\ app_result = "Ok"
    /\ app.exit
    /\ app.input_mode = "Normal"
    /\ event = KeyEv("q", "NONE", "Press")
    /\ app.input.value # <<>>

====
